---- MODULE Spec2Model ----
(***************************************************************************)
(* Model of the two components of the repository:                          *)
(*   research/pairs_monitor.py   PairsMonitor (baseline, tick loop)        *)
(*   src/trading/technical.py    Technical (RSI, MFI, OBV over a table)    *)
(* Floating-point values are modelled as exact extended rationals          *)
(* (finite n/d, nan, +inf, -inf) with the IEEE-754 rules numpy.float64     *)
(* applies to division by zero and to comparisons with nan.                *)
(***************************************************************************)
EXTENDS Integers, Sequences, FiniteSets, TLC

(***************************************************************************)
(* Bounds of the model.                                                    *)
(***************************************************************************)
\* current prices returned by the price source are 0..MaxPrice
MaxPrice == 5
\* bars in a price table
MaxBars == 3
\* close/high/low of a bar are 1..MaxClose
MaxClose == 2
\* volume of a bar is 0..MaxVolume
MaxVolume == 1
\* rolling window lengths are 1..MaxPeriod
MaxPeriod == 2

(***************************************************************************)
(* Extended rationals: the values a float64 expression can take.           *)
(***************************************************************************)
RECURSIVE GCD(_, _)
GCD(a, b) ==
    IF b = 0 THEN a ELSE GCD(b, a % b)

AbsInt(n) ==
    IF n < 0 THEN -n ELSE n

SignInt(n) ==
    IF n < 0 THEN -1 ELSE IF n > 0 THEN 1 ELSE 0

NaN == [k |-> "nan", n |-> 0, d |-> 1]

PInf == [k |-> "inf", n |-> 1, d |-> 1]

NInf == [k |-> "inf", n |-> -1, d |-> 1]

\* the finite value n/d in lowest terms with a positive denominator (d # 0)
Fin(n, d) ==
    LET g == GCD(AbsInt(n), AbsInt(d))
        s == SignInt(d)
    IN  [k |-> "fin", n |-> (s * n) \div g, d |-> (s * d) \div g]

IsNaN(a) ==
    a.k = "nan"

IsFin(a) ==
    a.k = "fin"

\* sign of a non-nan value: -1, 0, 1
FSign(a) ==
    SignInt(a.n)

FNeg(a) ==
    CASE a.k = "nan" -> NaN
      [] a.k = "inf" -> IF a.n > 0 THEN NInf ELSE PInf
      [] OTHER -> Fin(-a.n, a.d)

FAdd(a, b) ==
    CASE a.k = "nan" \/ b.k = "nan" -> NaN
      [] a.k = "inf" /\ b.k = "inf" -> IF a.n = b.n THEN a ELSE NaN
      [] a.k = "inf" -> a
      [] b.k = "inf" -> b
      [] OTHER -> Fin(a.n * b.d + b.n * a.d, a.d * b.d)

FSub(a, b) ==
    FAdd(a, FNeg(b))

FMul(a, b) ==
    CASE a.k = "nan" \/ b.k = "nan" -> NaN
      [] a.k = "inf" \/ b.k = "inf" ->
            IF FSign(a) * FSign(b) = 0 THEN NaN
            ELSE IF FSign(a) * FSign(b) > 0 THEN PInf ELSE NInf
      [] OTHER -> Fin(a.n * b.n, a.d * b.d)

\* float64 division: x/0 is +-inf for x # 0 and nan for x = 0, never a fault
FDiv(a, b) ==
    CASE a.k = "nan" \/ b.k = "nan" -> NaN
      [] a.k = "inf" /\ b.k = "inf" -> NaN
      [] a.k = "inf" -> IF FSign(b) < 0 THEN FNeg(a) ELSE a
      [] b.k = "inf" -> Fin(0, 1)
      [] b.n = 0 ->
            IF a.n = 0 THEN NaN ELSE IF a.n > 0 THEN PInf ELSE NInf
      [] OTHER -> Fin(a.n * b.d, a.d * b.n)

FAbs(a) ==
    CASE a.k = "nan" -> NaN
      [] a.k = "inf" -> PInf
      [] OTHER -> Fin(AbsInt(a.n), a.d)

\* a > b; every comparison with nan is false
FGt(a, b) ==
    CASE a.k = "nan" \/ b.k = "nan" -> FALSE
      [] a.k = "inf" /\ b.k = "inf" -> a.n > b.n
      [] a.k = "inf" -> a.n > 0
      [] b.k = "inf" -> b.n < 0
      [] OTHER -> a.n * b.d > b.n * a.d

FLt(a, b) ==
    FGt(b, a)

\* a <= b; false when either side is nan
FLe(a, b) ==
    /\ ~IsNaN(a)
    /\ ~IsNaN(b)
    /\ ~FGt(a, b)

(***************************************************************************)
(* PairsMonitor: configuration and state.                                  *)
(***************************************************************************)
\* sleep after a failed tick, seconds
BACKOFF_SECONDS == 10

\* pairs_df: the configured pairs, in row order
Pairs ==
    << [asset1 |-> "A", asset2 |-> "B"], [asset1 |-> "C", asset2 |-> "D"] >>

\* f"{asset1}/{asset2}"
Label(pair) ==
    pair.asset1 \o "/" \o pair.asset2

Labels ==
    {Label(Pairs[i]) : i \in 1..Len(Pairs)}

\* zscore_threshold values a caller passes (2.0 is the default)
Thresholds ==
    {Fin(2, 1), Fin(1, 1)}

\* interval_seconds values a caller passes (60 is the default)
Intervals ==
    {60, 5}

\* {mean, std} of a 30-day ratio history: a varying history, a constant one
\* (std = 0), a single row (std = nan) and an empty one (both nan)
Baselines ==
    { [mean |-> Fin(1, 1), std |-> Fin(1, 10)],
      [mean |-> Fin(1, 1), std |-> Fin(1, 2)],
      [mean |-> Fin(1, 1), std |-> Fin(0, 1)],
      [mean |-> Fin(1, 1), std |-> NaN],
      [mean |-> NaN, std |-> NaN] }

\* regularMarketPrice values the price source returns
Prices ==
    0..MaxPrice

VARIABLES
    pc,                 \* position of the monitor's single flow of control
    zscore_threshold,   \* self.zscore_threshold
    interval_seconds,   \* argument of monitor_continuously
    historical_ratios,  \* self.historical_ratios: label -> {mean, std}
    idx,                \* row of self.pairs the running loop is at
    alerts,             \* local list of check_divergence
    ratios,             \* current ratios computed so far in the running tick
    zs,                 \* z-scores computed so far in the running tick
    printed,            \* alerts printed by the running or last tick
    error,              \* the exception the running or last tick raised, or "none"
    reported,           \* the running or last tick printed "Error occurred"
    slept               \* argument of the last time.sleep call, 0 if none

mvars ==
    << pc, zscore_threshold, interval_seconds, historical_ratios, idx,
       alerts, ratios, zs, printed, error, reported, slept >>

VARIABLES
    tpc,      \* "new" before Technical.__init__ ran, "ready" after
    data,     \* the argument of Technical.__init__
    df,       \* self.df: column name -> series
    raised    \* outcome of the last calculate_* call: "none" or "KeyError"

tvars ==
    << tpc, data, df, raised >>

vars ==
    << pc, zscore_threshold, interval_seconds, historical_ratios, idx,
       alerts, ratios, zs, printed, error, reported, slept, tpc, data, df, raised >>

\* PairsMonitor.__init__ up to the call of initialize_historical_ratios
MonitorInit ==
    /\ pc = "init"
    /\ zscore_threshold \in Thresholds
    /\ interval_seconds \in Intervals
    /\ historical_ratios = [l \in {} |-> NaN]
    /\ idx = 1
    /\ alerts = << >>
    /\ ratios = << >>
    /\ zs = << >>
    /\ printed = << >>
    /\ error = "none"
    /\ reported = FALSE
    /\ slept = 0

\* faulty variant of Action: the two sides of the trade exchanged
ActionSwapped(zscore) ==
    IF FGt(zscore, Fin(0, 1)) THEN "LONG" ELSE "SHORT"

\* 'SHORT' if zscore > 0 else 'LONG'
Action(zscore) ==
    IF FGt(zscore, Fin(0, 1)) THEN "SHORT" ELSE "LONG"

\* faulty variant of Exceeds: an inclusive threshold
ExceedsInclusive(zscore, threshold) ==
    ~IsNaN(zscore) /\ ~FGt(threshold, FAbs(zscore))

\* abs(zscore) > self.zscore_threshold
Exceeds(zscore, threshold) ==
    FGt(FAbs(zscore), threshold)

\* (current_ratio - hist_stats['mean']) / hist_stats['std']
ZScore(current_ratio, hist_stats) ==
    FDiv(FSub(current_ratio, hist_stats.mean), hist_stats.std)

\* the alert dictionary (the timestamp of the wall clock is left out)
Alert(pair, zscore) ==
    [pair |-> Label(pair), zscore |-> zscore, action |-> Action(zscore)]

\* one iteration of the loop of initialize_historical_ratios: both downloads
\* succeed and the statistics of the ratio are stored under the pair's label
initialize_pair ==
    /\ pc = "init"
    /\ idx <= Len(Pairs)
    /\ \E b \in Baselines :
          historical_ratios' =
              [l \in DOMAIN historical_ratios \cup {Label(Pairs[idx])} |->
                  IF l = Label(Pairs[idx]) THEN b ELSE historical_ratios[l]]
    /\ idx' = idx + 1
    /\ UNCHANGED << pc, zscore_threshold, interval_seconds, alerts, ratios, zs,
                    printed, error, reported, slept >>
    /\ UNCHANGED tvars

\* faulty variant of initialize_fail: the failure is swallowed and the pair
\* is skipped
initialize_fail_swallowed ==
    /\ pc = "init"
    /\ idx <= Len(Pairs)
    /\ idx' = idx + 1
    /\ error' = "FetchError"
    /\ UNCHANGED << pc, zscore_threshold, interval_seconds, historical_ratios,
                    alerts, ratios, zs, printed, reported, slept >>
    /\ UNCHANGED tvars

\* a download raises: nothing catches it, the constructor raises
initialize_fail ==
    /\ pc = "init"
    /\ idx <= Len(Pairs)
    /\ pc' = "aborted"
    /\ error' = "FetchError"
    /\ UNCHANGED << zscore_threshold, interval_seconds, historical_ratios,
                    idx, alerts, ratios, zs, printed, reported, slept >>
    /\ UNCHANGED tvars

\* the loop of initialize_historical_ratios ends, __init__ returns
constructor_return ==
    /\ pc = "init"
    /\ idx > Len(Pairs)
    /\ pc' = "constructed"
    /\ UNCHANGED << zscore_threshold, interval_seconds, historical_ratios,
                    idx, alerts, ratios, zs, printed, error, reported, slept >>
    /\ UNCHANGED tvars

\* monitor_continuously is called and enters while True
monitor_continuously ==
    /\ pc = "constructed"
    /\ pc' = "loop"
    /\ UNCHANGED << zscore_threshold, interval_seconds, historical_ratios,
                    idx, alerts, ratios, zs, printed, error, reported, slept >>
    /\ UNCHANGED tvars

\* top of the loop body: check_divergence is entered, alerts = []
tick_begin ==
    /\ pc = "loop"
    /\ pc' = "check"
    /\ idx' = 1
    /\ alerts' = << >>
    /\ ratios' = << >>
    /\ zs' = << >>
    /\ printed' = << >>
    /\ error' = "none"
    /\ reported' = FALSE
    /\ UNCHANGED << zscore_threshold, interval_seconds, historical_ratios,
                    slept >>
    /\ UNCHANGED tvars

\* faulty variant of check_pair_body: each alert is printed as soon as it is
\* found
check_pair_body_print_each(price1, price2) ==
    LET pair == Pairs[idx]
    IN  IF price2 = 0
        THEN /\ pc' = "except"
             /\ error' = "ZeroDivisionError"
             /\ UNCHANGED << idx, alerts, ratios, zs, printed, historical_ratios >>
        ELSE IF Label(pair) \notin DOMAIN historical_ratios
        THEN /\ pc' = "except"
             /\ error' = "KeyError"
             /\ UNCHANGED << idx, alerts, ratios, zs, printed, historical_ratios >>
        ELSE LET zscore == ZScore(Fin(price1, price2),
                                  historical_ratios[Label(pair)])
             IN  /\ alerts' = IF Exceeds(zscore, zscore_threshold)
                              THEN Append(alerts, Alert(pair, zscore))
                              ELSE alerts
                 /\ printed' = alerts'
                 /\ ratios' = Append(ratios, Fin(price1, price2))
                 /\ zs' = Append(zs, zscore)
                 /\ idx' = idx + 1
                 /\ UNCHANGED << pc, error, historical_ratios >>

\* one iteration of the loop of check_divergence with both prices fetched
check_pair_body(price1, price2) ==
    LET pair == Pairs[idx]
    IN  IF price2 = 0
        THEN \* current_price1 / current_price2 of Python numbers
             /\ pc' = "except"
             /\ error' = "ZeroDivisionError"
             /\ UNCHANGED << idx, alerts, ratios, zs, printed, historical_ratios >>
        ELSE IF Label(pair) \notin DOMAIN historical_ratios
        THEN \* self.historical_ratios[...] of a label never stored
             /\ pc' = "except"
             /\ error' = "KeyError"
             /\ UNCHANGED << idx, alerts, ratios, zs, printed, historical_ratios >>
        ELSE LET zscore == ZScore(Fin(price1, price2),
                                  historical_ratios[Label(pair)])
             IN  /\ alerts' = IF Exceeds(zscore, zscore_threshold)
                              THEN Append(alerts, Alert(pair, zscore))
                              ELSE alerts
                 /\ ratios' = Append(ratios, Fin(price1, price2))
                 /\ zs' = Append(zs, zscore)
                 /\ idx' = idx + 1
                 /\ UNCHANGED << pc, error, printed, historical_ratios >>

check_pair ==
    /\ pc = "check"
    /\ idx <= Len(Pairs)
    /\ \E price1 \in Prices, price2 \in Prices :
          check_pair_body(price1, price2)
    /\ UNCHANGED << zscore_threshold, interval_seconds, reported, slept >>
    /\ UNCHANGED tvars

\* a price fetch of the iteration raises
check_pair_fetch_fail ==
    /\ pc = "check"
    /\ idx <= Len(Pairs)
    /\ pc' = "except"
    /\ error' = "FetchError"
    /\ UNCHANGED << zscore_threshold, interval_seconds, historical_ratios,
                    idx, alerts, ratios, zs, printed, reported, slept >>
    /\ UNCHANGED tvars

\* faulty variant of tick_complete: the baseline mean of the last pair is
\* replaced by the ratio just seen
tick_complete_refresh ==
    /\ pc = "check"
    /\ idx > Len(Pairs)
    /\ printed' = alerts
    /\ slept' = interval_seconds
    /\ pc' = "sleep"
    /\ historical_ratios' =
          [historical_ratios EXCEPT ![Label(Pairs[Len(Pairs)])].mean =
              ratios[Len(ratios)]]
    /\ UNCHANGED << zscore_threshold, interval_seconds, idx, alerts, ratios,
                    zs, error, reported >>
    /\ UNCHANGED tvars

\* check_divergence returns; the alerts are printed; time.sleep(interval)
tick_complete ==
    /\ pc = "check"
    /\ idx > Len(Pairs)
    /\ printed' = alerts
    /\ slept' = interval_seconds
    /\ pc' = "sleep"
    /\ UNCHANGED << zscore_threshold, interval_seconds, historical_ratios,
                    idx, alerts, ratios, zs, error, reported >>
    /\ UNCHANGED tvars

\* faulty variant of except_handler: the failure leaves the loop
except_handler_propagate ==
    /\ pc = "except"
    /\ pc' = "terminated"
    /\ UNCHANGED << zscore_threshold, interval_seconds, historical_ratios,
                    idx, alerts, ratios, zs, printed, error, reported, slept >>
    /\ UNCHANGED tvars

\* except Exception as e: print the error, time.sleep(10)
except_handler ==
    /\ pc = "except"
    /\ reported' = TRUE
    /\ slept' = BACKOFF_SECONDS
    /\ pc' = "sleep"
    /\ UNCHANGED << zscore_threshold, interval_seconds, historical_ratios,
                    idx, alerts, ratios, zs, printed, error >>
    /\ UNCHANGED tvars

\* time.sleep returns, while True iterates
sleep_return ==
    /\ pc = "sleep"
    /\ pc' = "loop"
    /\ UNCHANGED << zscore_threshold, interval_seconds, historical_ratios,
                    idx, alerts, ratios, zs, printed, error, reported, slept >>
    /\ UNCHANGED tvars

(***************************************************************************)
(* Technical: the price table and the indicators RSI, MFI and OBV.         *)
(***************************************************************************)
\* a bar of the table handed to the constructor
Bars ==
    { b \in [close : 1..MaxClose, high : 1..MaxClose, low : 1..MaxClose,
             volume : 0..MaxVolume] : b.low <= b.close /\ b.close <= b.high }

\* the column names of the tables handed to the constructor
ColumnSets ==
    { {"Close", "High", "Low", "Volume"},
      {"close", "high", "low", "volume"},
      {"Close", "High", "Low"},
      {"close", "high", "low"} }

\* column_mapping, applied by self.df.rename to the columns present
column_mapping(name) ==
    CASE name = "close" -> "Close"
      [] name = "high" -> "High"
      [] name = "low" -> "Low"
      [] name = "volume" -> "Volume"
      [] name = "timestamp" -> "Date"
      [] OTHER -> name

\* the field of a bar a column of the input holds
Field(name) ==
    CASE column_mapping(name) = "Close" -> "close"
      [] column_mapping(name) = "High" -> "high"
      [] column_mapping(name) = "Low" -> "low"
      [] OTHER -> "volume"

\* an input table: one float column per name, rows in date order
Table(cols, rows) ==
    [name \in cols |-> [i \in 1..Len(rows) |-> Fin(rows[i][Field(name)], 1)]]

Periods ==
    1..MaxPeriod

Zero ==
    Fin(0, 1)

Hundred ==
    Fin(100, 1)

RECURSIVE SumRange(_, _, _)
\* s[lo] + ... + s[hi]
SumRange(s, lo, hi) ==
    IF lo > hi THEN Zero ELSE FAdd(SumRange(s, lo, hi - 1), s[hi])

\* Series.diff(): the first row has no predecessor
Diff(s) ==
    [i \in 1..Len(s) |-> IF i = 1 THEN NaN ELSE FSub(s[i], s[i - 1])]

\* Series.shift(1)
Shift(s) ==
    [i \in 1..Len(s) |-> IF i = 1 THEN NaN ELSE s[i - 1]]

\* Series.rolling(period).sum(): missing until the window is full
RollingSum(s, period) ==
    [i \in 1..Len(s) |->
        IF i < period THEN NaN ELSE SumRange(s, i - period + 1, i)]

\* Series.rolling(window=period).mean()
RollingMean(s, period) ==
    LET sums == RollingSum(s, period)
    IN  [i \in 1..Len(s) |-> FDiv(sums[i], Fin(period, 1))]

\* Series.cumsum()
CumSum(s) ==
    [i \in 1..Len(s) |-> SumRange(s, 1, i)]

\* np.where(value > reference, 1, -1)
Signal(value, reference) ==
    [i \in 1..Len(value) |->
        IF FGt(value[i], reference[i]) THEN Fin(1, 1) ELSE Fin(-1, 1)]

Const(n, c) ==
    [i \in 1..n |-> c]

\* 100 - (100 / (1 + ratio))
Index(ratio) ==
    FSub(Hundred, FDiv(Hundred, FAdd(Fin(1, 1), ratio)))

\* gain of calculate_rsi: (delta.where(delta > 0, 0)).rolling(period).mean()
Gain(close, period) ==
    LET delta == Diff(close)
    IN  RollingMean([i \in 1..Len(close) |->
                        IF FGt(delta[i], Zero) THEN delta[i] ELSE Zero], period)

\* loss of calculate_rsi: (-delta.where(delta < 0, 0)).rolling(period).mean()
Loss(close, period) ==
    LET delta == Diff(close)
    IN  RollingMean([i \in 1..Len(close) |->
                        FNeg(IF FLt(delta[i], Zero) THEN delta[i] ELSE Zero)],
                    period)

\* the RSI column: rs = gain / loss, 100 - (100 / (1 + rs))
RSI(close, period) ==
    LET gain == Gain(close, period)
        loss == Loss(close, period)
    IN  [i \in 1..Len(close) |-> Index(FDiv(gain[i], loss[i]))]

\* (High + Low + Close) / 3
TypicalPrice(high, low, close) ==
    [i \in 1..Len(close) |->
        FDiv(FAdd(FAdd(high[i], low[i]), close[i]), Fin(3, 1))]

\* typical_price * Volume
MoneyFlow(high, low, close, volume) ==
    LET typical_price == TypicalPrice(high, low, close)
    IN  [i \in 1..Len(close) |-> FMul(typical_price[i], volume[i])]

\* money_flow.where(typical_price > typical_price.shift(1), 0).rolling.sum()
PositiveFlow(high, low, close, volume, period) ==
    LET typical_price == TypicalPrice(high, low, close)
        previous == Shift(typical_price)
        money_flow == MoneyFlow(high, low, close, volume)
    IN  RollingSum([i \in 1..Len(close) |->
                       IF FGt(typical_price[i], previous[i])
                       THEN money_flow[i] ELSE Zero], period)

\* money_flow.where(typical_price < typical_price.shift(1), 0).rolling.sum()
NegativeFlow(high, low, close, volume, period) ==
    LET typical_price == TypicalPrice(high, low, close)
        previous == Shift(typical_price)
        money_flow == MoneyFlow(high, low, close, volume)
    IN  RollingSum([i \in 1..Len(close) |->
                       IF FLt(typical_price[i], previous[i])
                       THEN money_flow[i] ELSE Zero], period)

\* the MFI column
MFI(high, low, close, volume, period) ==
    LET positive_flow == PositiveFlow(high, low, close, volume, period)
        negative_flow == NegativeFlow(high, low, close, volume, period)
    IN  [i \in 1..Len(close) |-> Index(FDiv(positive_flow[i], negative_flow[i]))]

\* ~self.df['Close'].diff().le(0) * 2 - 1
ObvSign(close) ==
    LET delta == Diff(close)
    IN  [i \in 1..Len(close) |->
            IF ~FLe(delta[i], Zero) THEN Fin(1, 1) ELSE Fin(-1, 1)]

\* the OBV column: (Volume * sign).cumsum()
OBV(volume, close) ==
    LET sign == ObvSign(close)
    IN  CumSum([i \in 1..Len(close) |-> FMul(volume[i], sign[i])])

\* self.df with the columns of new assigned
Assign(new) ==
    [c \in DOMAIN df \cup DOMAIN new |-> IF c \in DOMAIN new THEN new[c] ELSE df[c]]

\* the state of the Technical instance while the monitor runs
TechIdle ==
    /\ tpc = "off"
    /\ data = << >>
    /\ df = << >>
    /\ raised = "none"

\* a table is about to be handed to Technical(data)
TechInit ==
    /\ tpc = "new"
    /\ \E cols \in ColumnSets, rows \in [1..MaxBars -> Bars] :
          data = Table(cols, rows)
    /\ df = [c \in {} |-> << >>]
    /\ raised = "none"

\* the state of the monitor while a Technical instance is used
MonitorIdle ==
    /\ pc = "off"
    /\ zscore_threshold = Fin(2, 1)
    /\ interval_seconds = 60
    /\ historical_ratios = [l \in {} |-> NaN]
    /\ idx = 1
    /\ alerts = << >>
    /\ ratios = << >>
    /\ zs = << >>
    /\ printed = << >>
    /\ error = "none"
    /\ reported = FALSE
    /\ slept = 0

\* Technical.__init__: copy the table and rename the lower-case columns
Technical_init ==
    /\ tpc = "new"
    /\ tpc' = "ready"
    /\ df' = [c \in {column_mapping(n) : n \in DOMAIN data} |->
                data[CHOOSE n \in DOMAIN data : column_mapping(n) = c]]
    /\ UNCHANGED << data, raised >>
    /\ UNCHANGED mvars

\* calculate_rsi(period)
calculate_rsi_body(period) ==
    IF "Close" \notin DOMAIN df
    THEN /\ raised' = "KeyError"
         /\ UNCHANGED df
    ELSE LET rsi == RSI(df["Close"], period)
         IN  /\ df' = Assign([c \in {"RSI", "RSI_Signal"} |->
                         IF c = "RSI" THEN rsi
                         ELSE Signal(rsi, Const(Len(rsi), Fin(50, 1)))])
             /\ raised' = "none"

calculate_rsi ==
    /\ tpc = "ready"
    /\ \E period \in Periods : calculate_rsi_body(period)
    /\ UNCHANGED << tpc, data >>
    /\ UNCHANGED mvars

\* calculate_mfi(period)
calculate_mfi_body(period) ==
    IF {"High", "Low", "Close", "Volume"} \subseteq DOMAIN df
    THEN LET mfi == MFI(df["High"], df["Low"], df["Close"], df["Volume"],
                        period)
         IN  /\ df' = Assign([c \in {"MFI", "MFI_Signal"} |->
                         IF c = "MFI" THEN mfi
                         ELSE Signal(mfi, Const(Len(mfi), Fin(50, 1)))])
             /\ raised' = "none"
    ELSE /\ raised' = "KeyError"
         /\ UNCHANGED df

calculate_mfi ==
    /\ tpc = "ready"
    /\ \E period \in Periods : calculate_mfi_body(period)
    /\ UNCHANGED << tpc, data >>
    /\ UNCHANGED mvars

\* calculate_obv()
calculate_obv_body ==
    IF {"Volume", "Close"} \subseteq DOMAIN df
    THEN LET obv == OBV(df["Volume"], df["Close"])
         IN  /\ df' = Assign([c \in {"OBV", "OBV_Signal"} |->
                         IF c = "OBV" THEN obv ELSE Signal(obv, Shift(obv))])
             /\ raised' = "none"
    ELSE /\ raised' = "KeyError"
         /\ UNCHANGED df

calculate_obv ==
    /\ tpc = "ready"
    /\ calculate_obv_body
    /\ UNCHANGED << tpc, data >>
    /\ UNCHANGED mvars

(***************************************************************************)
(* The two specifications.                                                 *)
(***************************************************************************)
Init ==
    MonitorInit /\ TechIdle

Next ==
    \/ initialize_pair
    \/ initialize_fail
    \/ constructor_return
    \/ monitor_continuously
    \/ tick_begin
    \/ check_pair
    \/ check_pair_fetch_fail
    \/ tick_complete
    \/ except_handler
    \/ sleep_return

Spec ==
    Init /\ [][Next]_vars

InitTech ==
    TechInit /\ MonitorIdle

NextTech ==
    \/ Technical_init
    \/ calculate_rsi
    \/ calculate_mfi
    \/ calculate_obv

SpecTech ==
    InitTech /\ [][NextTech]_vars

(***************************************************************************)
(* Properties of the monitor (under Spec).                                 *)
(***************************************************************************)
\* positions inside the loop of monitor_continuously
InLoop ==
    pc \in {"loop", "check", "except", "sleep"}

\* the running or last tick raised
TickFailed ==
    InLoop /\ error # "none"

\* the last tick ran to its end and the loop sleeps or is about to iterate
TickCompleted ==
    pc \in {"sleep", "loop"} /\ error = "none" /\ Len(zs) = Len(Pairs)

\* some alert of the list names the pair
HasAlert(list, pair) ==
    \E j \in 1..Len(list) : list[j].pair = Label(pair)

\* C1: a failure during a tick never ends the loop: a step that raises in
\* check_divergence goes to the handler, the handler reports the failure
\* and sleeps the fixed 10 seconds, a tick that completes sleeps
\* interval_seconds, and every step out of a sleep starts another tick
C1_FailureBacksOffAndLoopContinues ==
    [][ /\ InLoop => InLoop'
        /\ (pc = "check" /\ error' # "none") => pc' = "except"
        /\ pc = "except" =>
              pc' = "sleep" /\ reported' /\ slept' = BACKOFF_SECONDS
        /\ (pc = "check" /\ pc' = "sleep") =>
              error = "none" /\ slept' = interval_seconds
        /\ pc = "sleep" => pc' = "loop"
        /\ pc = "loop" => pc' = "check" ]_vars

\* a tick is checking pairs again after a failed tick and its back-off
C1_Witness ==
    /\ pc = "check"
    /\ Len(zs) > 0
    /\ slept = BACKOFF_SECONDS
    /\ slept # interval_seconds

\* C2 (as claimed): for a pair whose baseline std is zero the z-score is
\* nan and the pair gets no alert, whatever the current ratio
C2_ZeroStdGivesNaNAndNoAlert ==
    \A i \in 1..Len(zs) :
        LET hist_stats == historical_ratios[Label(Pairs[i])]
        IN  (IsFin(hist_stats.std) /\ hist_stats.std.n = 0) =>
                IsNaN(zs[i]) /\ ~HasAlert(alerts, Pairs[i])

\* |z| > t in integer arithmetic; nan is above nothing, +-inf above all
StrictlyAbove(z, t) ==
    CASE z.k = "nan" -> FALSE
      [] z.k = "inf" -> TRUE
      [] OTHER -> AbsInt(z.n) * t.d > t.n * z.d

\* C3: in a tick that completes a pair has an alert exactly when the
\* absolute value of its z-score is strictly above zscore_threshold
C3_AlertIffStrictlyAboveThreshold ==
    TickCompleted =>
        \A i \in 1..Len(Pairs) :
            HasAlert(printed, Pairs[i]) <=> StrictlyAbove(zs[i], zscore_threshold)

\* a completed tick where a z-score equals minus the threshold, no alert
C3_Witness ==
    /\ TickCompleted
    /\ \E i \in 1..Len(Pairs) :
          /\ zs[i] = FNeg(zscore_threshold)
          /\ ~HasAlert(printed, Pairs[i])
    /\ Len(printed) > 0

\* the z-score belongs to the ratio and the baseline: z * std + mean = ratio
\* for a positive std, and the sign of an infinite z is the sign of
\* ratio - mean for a zero std
IsZScoreOf(z, ratio, hist_stats) ==
    IF IsFin(hist_stats.std) /\ hist_stats.std.n # 0 /\ IsFin(hist_stats.mean)
    THEN IsFin(z) /\ FAdd(FMul(z, hist_stats.std), hist_stats.mean) = ratio
    ELSE IF IsFin(hist_stats.std) /\ IsFin(hist_stats.mean)
    THEN IF ratio = hist_stats.mean THEN IsNaN(z)
         ELSE z.k = "inf" /\ (z.n > 0 <=> FGt(ratio, hist_stats.mean))
    ELSE IsNaN(z)

\* C4: every alert is SHORT when its z-score is positive and LONG when it
\* is negative, and its z-score is (current_ratio - mean) / std of the pair
\* its label names
C4_AlertActionFollowsSign ==
    \A j \in 1..Len(alerts) :
        \E i \in 1..Len(zs) :
            /\ alerts[j].pair = Label(Pairs[i])
            /\ IsZScoreOf(alerts[j].zscore, ratios[i],
                          historical_ratios[Label(Pairs[i])])
            /\ alerts[j].zscore.n > 0 => alerts[j].action = "SHORT"
            /\ alerts[j].zscore.n < 0 => alerts[j].action = "LONG"

\* a tick printed a SHORT alert and a LONG alert
C4_Witness ==
    /\ Len(printed) = 2
    /\ printed[1].action = "SHORT" /\ printed[1].zscore.n > 0
    /\ printed[2].action = "LONG" /\ printed[2].zscore.n < 0

\* C5: a download failure during construction is not caught: the
\* constructor aborts, nothing runs afterwards, and no tick runs on a
\* monitor that lacks the baseline of a configured pair
C5_InitFailureAbortsConstruction ==
    /\ [](pc \notin {"init", "aborted"} =>
             DOMAIN historical_ratios = Labels)
    /\ [][ /\ (pc = "init" /\ error' # "none") => pc' = "aborted"
           /\ pc # "aborted" ]_vars

\* construction aborted at the second pair, after the first was stored
C5_Witness ==
    /\ pc = "aborted"
    /\ error = "FetchError"
    /\ DOMAIN historical_ratios = {Label(Pairs[1])}

\* C6: once the constructor returned no step changes historical_ratios
C6_BaselineWrittenOnlyDuringInit ==
    [][pc # "init" => historical_ratios' = historical_ratios]_vars

\* after a failed tick and its back-off a tick checked every pair and found
\* alerts, the baseline still in place
C6_Witness ==
    /\ pc = "check"
    /\ idx > Len(Pairs)
    /\ slept = BACKOFF_SECONDS
    /\ Len(alerts) > 0
    /\ DOMAIN historical_ratios = Labels

\* C10: a tick that raises prints no alert and leaves the pairs after the
\* failing one unchecked; alerts are printed only by a tick that checked
\* every pair
C10_AlertsAllOrNothing ==
    /\ TickFailed =>
          /\ printed = << >>
          /\ idx <= Len(Pairs)
          /\ Len(zs) = idx - 1
    /\ Len(printed) > 0 => TickCompleted

\* a tick failed at the second pair after the first pair earned an alert
C10_Witness ==
    /\ TickFailed
    /\ pc = "sleep"
    /\ Len(alerts) = 1
    /\ idx = 2
    /\ printed = << >>

(***************************************************************************)
(* Properties of the indicators (under SpecTech).                          *)
(***************************************************************************)
\* every value of the series is at least the one before it
NonDecreasing(s) ==
    \A i \in 2..Len(s) : FLe(s[i - 1], s[i])

\* C7 (as claimed): when no close is below the close before it (unchanged
\* closes included) the OBV column never decreases
C7_ObvNonDecreasingOnNonDecreasingClose ==
    ("OBV" \in DOMAIN df /\ NonDecreasing(df["Close"])) =>
        NonDecreasing(df["OBV"])

\* C8 (as claimed): a row of RSI whose rolling average loss is zero, and a
\* row of MFI whose rolling negative money flow is zero, holds nan
C8_ZeroDenominatorGivesNaN ==
    \A period \in Periods :
        /\ ("RSI" \in DOMAIN df /\ df["RSI"] = RSI(df["Close"], period)) =>
              \A i \in 1..Len(df["RSI"]) :
                  Loss(df["Close"], period)[i] = Zero => IsNaN(df["RSI"][i])
        /\ ("MFI" \in DOMAIN df /\
            df["MFI"] = MFI(df["High"], df["Low"], df["Close"],
                            df["Volume"], period)) =>
              \A i \in 1..Len(df["MFI"]) :
                  NegativeFlow(df["High"], df["Low"], df["Close"],
                               df["Volume"], period)[i] = Zero =>
                      IsNaN(df["MFI"][i])

\* C9 (as claimed): an indicator whose column is absent raises no failure
\* and leaves a column of not-computable markers as its result
C9_MissingColumnRaisesNothing ==
    /\ raised = "none"
    /\ \A c \in {"MFI", "OBV"} :
          (c \in DOMAIN df /\ "Volume" \notin DOMAIN df) =>
              \A i \in 1..Len(df[c]) : IsNaN(df[c][i])

====
